---- MODULE Spec2Model ----
(***************************************************************************)
(* Model of the marketing platform's command interpreter (zorro123q/keFu): *)
(* utils.parse_command, utils.generate_fake_customers,                     *)
(* utils.render_template_content, main.process_command,                    *)
(* main.receive_command and the customer/template routes, over the four    *)
(* SQLite tables of database.init_db.                                      *)
(*                                                                         *)
(* Text is a sequence of characters.  A character is written as an ASCII   *)
(* string: a Han character by its pinyin ("sou","ji" is the two-character  *)
(* word sou-ji, "gather"), a digit by itself, "_" , " " , "{" , "}" , "!". *)
(* SQL NULL / Python None is the one-element sequence Null, which is no    *)
(* text (its element is no character).                                     *)
(*                                                                         *)
(* Of each table the columns that the handlers read or that a handler      *)
(* decides are modelled: customers (id, name, industry, company, channel,  *)
(* add_status), templates (id, name, content), message_logs (id,           *)
(* customer_id, send_type, message_content, status, error), command_logs   *)
(* (id, status, result, error).  A statement (one execute / fetchall /     *)
(* fetchone, each its own connection and commit) is one atomic step.       *)
(***************************************************************************)
EXTENDS FiniteSets, Integers, Sequences, TLC

\* ------------------------------------------------------------ characters

Null == <<"NULL">>

Digits == {"0", "1", "2", "3", "4", "5", "6", "7", "8", "9"}

HanChars ==
    {"sou", "ji", "can", "yin", "hang", "ye", "ke", "hu", "xin", "xi", "tiao",
     "tian", "jia", "qun", "fa", "song", "huan", "ying", "chan", "pin", "gen",
     "jin", "huo", "dong", "jian", "bao", "gao", "ting", "zhi", "zhong", "zan",
     "xing", "ming", "gong", "si", "zhang", "san"}

\* [一-龥\w] : a Han character or a (Unicode) word character
WordChars == HanChars \cup Digits \cup {"_"}

Whitespace == {" "}

DigitVal(c) ==
    CASE c = "0" -> 0 [] c = "1" -> 1 [] c = "2" -> 2 [] c = "3" -> 3
      [] c = "4" -> 4 [] c = "5" -> 5 [] c = "6" -> 6 [] c = "7" -> 7
      [] c = "8" -> 8 [] c = "9" -> 9

\* the literals of the source, character by character
SouJi == <<"sou", "ji">>
HangCh == "hang"
YeCh == "ye"
KeHu == <<"ke", "hu">>
KeHuXinXi == <<"ke", "hu", "xin", "xi">>
TiaoCh == "tiao"
TianJia == <<"tian", "jia">>
QunFa == <<"qun", "fa">>
FaSong == <<"fa", "song">>
HuanYing == <<"huan", "ying">>
ChanPin == <<"chan", "pin">>
GenJin == <<"gen", "jin">>
HuoDong == <<"huo", "dong">>
JianBao == <<"jian", "bao">>
BaoGao == <<"bao", "gao">>
TingZhi == <<"ting", "zhi">>
ZhongZhi == <<"zhong", "zhi">>
ZanTing == <<"zan", "ting">>

\* ------------------------------------------------------------ str helpers

\* s[i:i+len(lit)] == lit
MatchAt(s, i, lit) ==
    /\ i >= 1
    /\ i + Len(lit) - 1 <= Len(s)
    /\ \A k \in 1..Len(lit) : s[i + k - 1] = lit[k]

\* lit in s
Contains(s, lit) == \E i \in 1..(Len(s) + 1) : MatchAt(s, i, lit)

RECURSIVE LStrip(_)
LStrip(s) ==
    IF s # <<>> /\ Head(s) \in Whitespace THEN LStrip(Tail(s)) ELSE s

RECURSIVE RStrip(_)
RStrip(s) ==
    IF s # <<>> /\ s[Len(s)] \in Whitespace
    THEN RStrip(SubSeq(s, 1, Len(s) - 1))
    ELSE s

\* str.strip()
Strip(s) == RStrip(LStrip(s))

RECURSIVE DigitsToInt(_)
\* int() of a digit run
DigitsToInt(ds) ==
    IF ds = <<>> THEN 0
    ELSE 10 * DigitsToInt(SubSeq(ds, 1, Len(ds) - 1)) + DigitVal(ds[Len(ds)])

SetMin(S) == CHOOSE x \in S : \A y \in S : x <= y
SetMax(S) == CHOOSE x \in S : \A y \in S : x >= y

\* ------------------------------------------------------------ parse_command

\* end of the maximal digit run that starts at p (p - 1 when there is none)
DigitRunEnd(s, p) ==
    SetMax({p - 1} \cup
           {e \in p..Len(s) : \A k \in p..e : s[k] \in Digits})

\* "客户信息(?P<number>\d+)条" matched at position p
GatherTailAt(s, p) ==
    /\ MatchAt(s, p, KeHuXinXi)
    /\ DigitRunEnd(s, p + 4) >= p + 4
    /\ DigitRunEnd(s, p + 4) + 1 <= Len(s)
    /\ s[DigitRunEnd(s, p + 4) + 1] = TiaoCh

\* "行业?" at position p: the character hang, then the character ye zero or
\* one time (the ? binds to the last character only); the position after it
\* for which the rest of the pattern matches, 0 when there is none
GatherHangYeAt(s, p) ==
    IF ~(p <= Len(s) /\ s[p] = HangCh) THEN 0
    ELSE IF p + 1 <= Len(s) /\ s[p + 1] = YeCh /\ GatherTailAt(s, p + 2)
         THEN p + 2
         ELSE IF GatherTailAt(s, p + 1) THEN p + 1 ELSE 0

\* the matches <<i, j>> of the gather pattern: "搜集" at i, the industry run
\* is s[i+2..j]
GatherMatches(s) ==
    {m \in (1..Len(s)) \X (1..Len(s)) :
        /\ MatchAt(s, m[1], SouJi)
        /\ m[2] >= m[1] + 2
        /\ \A k \in (m[1] + 2)..m[2] : s[k] \in WordChars
        /\ GatherHangYeAt(s, m[2] + 1) # 0}

\* re.search: the leftmost start, then the longest industry run (greedy +)
GatherSearch(s) ==
    LET ms == GatherMatches(s)
        i == SetMin({m[1] : m \in ms})
        j == SetMax({m[2] : m \in {x \in ms : x[1] = i}})
        t == GatherHangYeAt(s, j + 1)
    IN [industry |-> SubSeq(s, i + 2, j),
        number |-> DigitsToInt(SubSeq(s, t + 4, DigitRunEnd(s, t + 4)))]

\* the matches <<i, j>> of "添加(?P<target>[一-龥\w]+)客户"
AddFriendsMatches(s) ==
    {m \in (1..Len(s)) \X (1..Len(s)) :
        /\ MatchAt(s, m[1], TianJia)
        /\ m[2] >= m[1] + 2
        /\ \A k \in (m[1] + 2)..m[2] : s[k] \in WordChars
        /\ MatchAt(s, m[2] + 1, KeHu)}

AddFriendsSearch(s) ==
    LET ms == AddFriendsMatches(s)
        i == SetMin({m[1] : m \in ms})
        j == SetMax({m[2] : m \in {x \in ms : x[1] = i}})
    IN SubSeq(s, i + 2, j)

\* for kw in ["欢迎", "产品", "跟进", "活动"]: the first contained, else None
TemplateKeyword(command) ==
    IF Contains(command, HuanYing) THEN HuanYing
    ELSE IF Contains(command, ChanPin) THEN ChanPin
    ELSE IF Contains(command, GenJin) THEN GenJin
    ELSE IF Contains(command, HuoDong) THEN HuoDong
    ELSE Null

\* the six rules' conditions, as the source tests them
GatherRule(command) == GatherMatches(command) # {}
AddFriendsRule(command) == AddFriendsMatches(command) # {}
SendMessagesRule(command) ==
    Contains(command, QunFa) \/ Contains(command, FaSong)
GenerateReportRule(command) ==
    Contains(command, JianBao) \/ Contains(command, BaoGao)
StopRule(command) ==
    Contains(command, TingZhi) \/ Contains(command, ZhongZhi)
PauseRule(command) == Contains(command, ZanTing)

\* the dict returned; a key the source does not set reads as None (.get)
ParseResult(a, raw) ==
    [action |-> a, raw |-> raw, industry |-> Null, number |-> 0,
     target |-> Null, template_keyword |-> Null]

\* parse_command with the send-messages rule tried before the gather rule
parse_command_SendFirst(text) ==
    LET command == Strip(text)
        result == ParseResult("unknown", command)
    IN IF SendMessagesRule(command)
       THEN [result EXCEPT !.action = "send_messages",
                           !.template_keyword = TemplateKeyword(command)]
       ELSE IF GatherRule(command)
       THEN [result EXCEPT !.action = "gather",
                           !.industry = GatherSearch(command).industry,
                           !.number = GatherSearch(command).number]
       ELSE IF AddFriendsRule(command)
       THEN [result EXCEPT !.action = "add_friends",
                           !.target = AddFriendsSearch(command)]
       ELSE IF GenerateReportRule(command)
       THEN [result EXCEPT !.action = "generate_report"]
       ELSE IF StopRule(command)
       THEN [result EXCEPT !.action = "stop"]
       ELSE IF PauseRule(command)
       THEN [result EXCEPT !.action = "pause"]
       ELSE result

parse_command(text) ==
    LET command == Strip(text)
        result == ParseResult("unknown", command)
    IN IF GatherRule(command)
       THEN [result EXCEPT !.action = "gather",
                           !.industry = GatherSearch(command).industry,
                           !.number = GatherSearch(command).number]
       ELSE IF AddFriendsRule(command)
       THEN [result EXCEPT !.action = "add_friends",
                           !.target = AddFriendsSearch(command)]
       ELSE IF SendMessagesRule(command)
       THEN [result EXCEPT !.action = "send_messages",
                           !.template_keyword = TemplateKeyword(command)]
       ELSE IF GenerateReportRule(command)
       THEN [result EXCEPT !.action = "generate_report"]
       ELSE IF StopRule(command)
       THEN [result EXCEPT !.action = "stop"]
       ELSE IF PauseRule(command)
       THEN [result EXCEPT !.action = "pause"]
       ELSE result

\* ------------------------------------------------------------ render_template_content

RECURSIVE Replace(_, _, _)
\* str.replace(old, new): every non-overlapping occurrence, left to right;
\* the inserted text is not scanned again by this call
Replace(s, old, new) ==
    IF Len(s) < Len(old) THEN s
    ELSE IF MatchAt(s, 1, old)
         THEN new \o Replace(SubSeq(s, Len(old) + 1, Len(s)), old, new)
         ELSE <<Head(s)>> \o Replace(Tail(s), old, new)

\* "{客户姓名}", "{行业}", "{公司}"
TokName == <<"{", "ke", "hu", "xing", "ming", "}">>
TokIndustry == <<"{", "hang", "ye", "}">>
TokCompany == <<"{", "gong", "si", "}">>

\* customer.get(key) or ""
OrEmpty(v) == IF v = Null THEN <<>> ELSE v

\* the loop over placeholders.items(), in the dict's insertion order: each
\* replace works on the result of the one before it
render_template_content(template_content, customer) ==
    LET c1 == Replace(template_content, TokName, OrEmpty(customer.name))
        c2 == Replace(c1, TokIndustry, OrEmpty(customer.industry))
    IN Replace(c2, TokCompany, OrEmpty(customer.company))

\* ------------------------------------------------------------ bounds and inputs

\* request handlers that may be in flight at once
Workers == {"w1", "w2"}

\* rows ever inserted into customers / templates / command_logs
MaxCustomers == 2
MaxTemplates == 2
MaxCommands == 2

\* customers.add_status: "未添加", "已添加"; an arbitrary text of the edit form
WeiTianJia == <<"wei", "tian", "jia">>
YiTianJia == <<"yi", "tian", "jia">>
OtherStatus == <<"!">>
\* command_logs.status: "执行中", "执行成功", "执行失败"
ZhiXingZhong == <<"zhi", "xing", "zhong">>
ZhiXingChengGong == <<"zhi", "xing", "cheng", "gong">>
ZhiXingShiBai == <<"zhi", "xing", "shi", "bai">>
\* message_logs.send_type "群发", message_logs.status "发送成功"
FaSongChengGong == <<"fa", "song", "cheng", "gong">>
\* customers.channel "自动生成", customers.intention "无" is not modelled
ZiDongShengCheng == <<"zi", "dong", "sheng", "cheng">>
\* str(e) of an error raised by sqlite3
ErrText == <<"database is locked">>

\* values Faker produces (fake.name(), fake.company())
FakeNames == {<<"zhang", "san">>}
FakeCompanies == {<<"gong", "si">>}

\* values the customer forms submit
FormNames == {<<"zhang", "san">>}
FormCompanies == {Null}
FormIndustries == {<<"can", "yin">>, <<"ye">>, Null}
FormStatuses == {WeiTianJia, YiTianJia, OtherStatus, Null}
CustomerForms ==
    [name : FormNames, company : FormCompanies, industry : FormIndustries,
     add_status : FormStatuses]

\* values the template forms submit (name and content are required)
TemplateForms ==
    {[name |-> HuanYing, content |-> TokName],
     [name |-> GenJin, content |-> HuanYing \o TokIndustry]}

\* command texts posted to /commands, by the action they parse to
GatherCommands ==
    {<<"sou", "ji", "can", "hang", "ye", "ke", "hu", "xin", "xi", "2", "tiao">>,
     <<"sou", "ji", "ye", "hang", "ye", "ke", "hu", "xin", "xi", "1", "tiao">>,
     <<"sou", "ji", "can", "hang", "ye", "ke", "hu", "xin", "xi", "0", "tiao">>}
AddFriendsCommands ==
    {<<"tian", "jia", "can", "ke", "hu">>,
     <<"tian", "jia", "ke", "hu", "ke", "hu">>,
     <<"tian", "jia", "_", "_", "ke", "hu">>}
SendCommands == {<<"qun", "fa", "huan", "ying">>, <<"qun", "fa">>}
OtherCommands ==
    {<<"bao", "gao">>, <<"zan", "ting">>, <<"ting", "zhi">>, <<"!">>}
Commands ==
    GatherCommands \cup AddFriendsCommands \cup SendCommands \cup OtherCommands

\* parse_command(command) for each command text, computed once
Parsed == [c \in Commands |-> parse_command(c)]

\* ------------------------------------------------------------ state

VARIABLES
    customers,       \* table customers: set of rows
    templates,       \* table templates
    message_logs,    \* table message_logs
    command_logs,    \* table command_logs
    sqlite_sequence, \* AUTOINCREMENT: the largest id ever used, per table
    pc,              \* per worker: the statement its handler is at
    loc,             \* per worker: the handler's local variables
    arg,             \* input of the pure function under check
    ret              \* its result

vars ==
    <<customers, templates, message_logs, command_logs, sqlite_sequence,
      pc, loc, arg, ret>>

db == <<customers, templates, message_logs, command_logs, sqlite_sequence>>

\* a result message of process_command: which f-string, and its numbers/text
Msg(kind, nums, text) == [kind |-> kind, nums |-> nums, text |-> text]
NoMsg == Msg("None", <<>>, <<>>)

NoRow == [id |-> 0]

InitLoc ==
    [handler |-> "none",
     command |-> <<>>,          \* command
     cmd_id |-> 0,              \* cmd_id
     parsed |-> ParseResult("unknown", <<>>),
     new_customers |-> <<>>,    \* new_customers
     selected |-> <<>>,         \* customers (rows fetched by the branch)
     i |-> 0,                   \* loop position
     count |-> 0,               \* count / sent_count / total
     added |-> 0,               \* added
     template |-> NoRow,        \* template
     ins |-> {},                \* lastrowid of each row the loop inserted
     result |-> NoMsg,          \* result
     status |-> Null,           \* status
     error |-> Null,            \* error
     target_id |-> 0,           \* customer_id / template_id
     form |-> NoRow,            \* form fields
     response |-> 0]            \* HTTP status returned

\* ------------------------------------------------------------ SQL

RECURSIVE SortById(_)
\* rows in rowid order, the order of a table scan
SortById(rows) ==
    IF rows = {} THEN <<>>
    ELSE LET r == CHOOSE x \in rows : \A y \in rows : x.id <= y.id
         IN <<r>> \o SortById(rows \ {r})

\* value LIKE '%' || t || '%': NULL is no match; "_" in t matches any one
\* character
Like(value, t) ==
    /\ value # Null
    /\ \E i \in 1..(Len(value) + 1) :
        /\ i + Len(t) - 1 <= Len(value)
        /\ \A k \in 1..Len(t) : t[k] = "_" \/ value[i + k - 1] = t[k]

\* add_status != '已添加' (NULL != x is NULL, which is not true)
NotYiTianJia(c) == c.add_status # Null /\ c.add_status # YiTianJia

\* the WHERE clause of the add_friends branch
TargetGiven(target) == target # Null /\ target # <<>> /\ target # KeHu
AddFriendsWhere(c, target) ==
    /\ NotYiTianJia(c)
    /\ TargetGiven(target) => Like(c.industry, target)

\* the lookup with "name LIKE ? OR content LIKE ?"
TemplateByKeyword_NameOrContent(kw) ==
    LET ms == {t \in templates : Like(t.name, kw) \/ Like(t.content, kw)}
    IN IF ms = {} THEN NoRow ELSE SortById(ms)[1]

\* SELECT * FROM templates WHERE name LIKE ? ORDER BY id LIMIT 1
TemplateByKeyword(kw) ==
    LET ms == {t \in templates : Like(t.name, kw)}
    IN IF ms = {} THEN NoRow ELSE SortById(ms)[1]

\* SELECT * FROM templates ORDER BY id LIMIT 1
FirstTemplate == IF templates = {} THEN NoRow ELSE SortById(templates)[1]

\* the select without its WHERE clause
SendSelect_AllCustomers ==
    SortById({[id |-> c.id, name |-> c.name, industry |-> c.industry,
               company |-> c.company] : c \in customers})

\* SELECT id, name, industry, company FROM customers WHERE add_status = '已添加'
SendSelect ==
    SortById({[id |-> c.id, name |-> c.name, industry |-> c.industry,
               company |-> c.company] :
                c \in {x \in customers : x.add_status = YiTianJia}})

\* ------------------------------------------------------------ generate_fake_customers

\* one draft: industry as given, channel "自动生成", add_status "未添加"
Drafts(industry) ==
    [name : FakeNames, company : FakeCompanies, industry : {industry},
     channel : {ZiDongShengCheng}, add_status : {WeiTianJia}]

\* range(number - 1): one draft short
generate_fake_customers_OneShort(industry, number) ==
    [1..(number - 1) -> Drafts(industry)]

\* for _ in range(number): the lists Faker's randomness can produce
generate_fake_customers(industry, number) == [1..number -> Drafts(industry)]

\* ------------------------------------------------------------ handlers

InitDb ==
    /\ customers = {}
    /\ templates = {}
    /\ message_logs = {}
    /\ command_logs = {}
    /\ sqlite_sequence =
        [customers |-> 0, templates |-> 0, message_logs |-> 0,
         command_logs |-> 0]
    /\ pc = [p \in Workers |-> "idle"]
    /\ loc = [p \in Workers |-> InitLoc]

Pure == <<arg, ret>>

RECURSIVE PendingInserts(_)
\* customer rows the gather loops in flight have still to insert
PendingInserts(ps) ==
    IF ps = {} THEN 0
    ELSE LET p == CHOOSE x \in ps : TRUE
         IN (IF pc[p] = "gather_insert"
             THEN Len(loc[p].new_customers) - loc[p].i ELSE 0)
            + PendingInserts(ps \ {p})

RoomForCustomers(n) ==
    sqlite_sequence.customers + PendingInserts(Workers) + n <= MaxCustomers

\* the try block's normal exit: status = "执行成功", error = None
Succeed(l, msg) ==
    [l EXCEPT !.result = msg, !.status = ZhiXingChengGong, !.error = Null]

\* the except block with the status of the normal path left in place
Fail_StatusSuccess(l) ==
    [l EXCEPT !.result = NoMsg, !.status = ZhiXingChengGong,
              !.error = ErrText]

\* the except block: result = None, status = "执行失败", error = str(e)
Fail(l) ==
    [l EXCEPT !.result = NoMsg, !.status = ZhiXingShiBai, !.error = ErrText]

\* process_command up to its first SQL statement: the branch taken (the
\* gather loop over an empty list runs no statement)
FirstStatement(parsed, drafts) ==
    CASE parsed.action = "gather" ->
            IF drafts = <<>> THEN "rc_update" ELSE "gather_insert"
      [] parsed.action = "add_friends" -> "af_select"
      [] parsed.action = "send_messages" ->
            IF parsed.template_keyword # Null THEN "sm_template_kw"
            ELSE "sm_template_first"
      [] parsed.action = "generate_report" -> "gr_total"
      [] OTHER -> "rc_update"

\* the message of a branch that runs no SQL statement
ImmediateResult(parsed, drafts) ==
    CASE parsed.action = "gather" ->
            Msg("gather", <<Len(drafts)>>, parsed.industry)
      [] parsed.action \in {"pause", "stop"} -> Msg("pause_stop", <<>>, <<>>)
      [] OTHER -> Msg("unknown", <<>>, <<>>)

\* receive_command: INSERT INTO command_logs (status "执行中"), then
\* parse_command and process_command up to its first SQL statement
ReceiveCommand(p, command, drafts) ==
    LET id == sqlite_sequence.command_logs + 1
        parsed == Parsed[command]
        l0 == [InitLoc EXCEPT !.handler = "receive_command",
                              !.command = command, !.cmd_id = id,
                              !.parsed = parsed]
    IN /\ pc[p] = "idle"
       /\ IF parsed.action = "gather"
          THEN drafts \in generate_fake_customers(parsed.industry,
                                                  parsed.number)
          ELSE drafts = <<>>
       /\ command_logs' = command_logs \cup
            {[id |-> id, status |-> ZhiXingZhong, result |-> NoMsg,
              error |-> Null]}
       /\ sqlite_sequence' = [sqlite_sequence EXCEPT !.command_logs = id]
       /\ pc' = [pc EXCEPT ![p] = FirstStatement(parsed, drafts)]
       /\ loc' = [loc EXCEPT ![p] =
            IF FirstStatement(parsed, drafts) = "rc_update"
            THEN Succeed(l0, ImmediateResult(parsed, drafts))
            ELSE [l0 EXCEPT !.new_customers = drafts]]
       /\ UNCHANGED <<customers, templates, message_logs, Pure>>

\* gather: one INSERT INTO customers of the loop
GatherInsert(p) ==
    LET l == loc[p]
        d == l.new_customers[l.i + 1]
        id == sqlite_sequence.customers + 1
        last == l.i + 1 = Len(l.new_customers)
        l1 == [l EXCEPT !.i = l.i + 1, !.ins = l.ins \cup {id}]
    IN /\ pc[p] = "gather_insert"
       /\ customers' = customers \cup
            {[id |-> id, name |-> d.name, industry |-> d.industry,
              company |-> d.company, channel |-> d.channel,
              add_status |-> d.add_status]}
       /\ sqlite_sequence' = [sqlite_sequence EXCEPT !.customers = id]
       /\ pc' = [pc EXCEPT ![p] = IF last THEN "rc_update" ELSE @]
       /\ loc' = [loc EXCEPT ![p] =
            IF last
            THEN Succeed(l1, Msg("gather", <<Len(l.new_customers)>>,
                                 l.parsed.industry))
            ELSE l1]
       /\ UNCHANGED <<templates, message_logs, command_logs, Pure>>

\* add_friends: SELECT id FROM customers WHERE add_status != '已添加' ...
AddFriendsSelectRows(target) ==
    SortById({c \in customers : AddFriendsWhere(c, target)})

AddFriendsSelect(p) ==
    LET l == loc[p]
        rows == AddFriendsSelectRows(l.parsed.target)
        l1 == [l EXCEPT !.selected = rows, !.count = Len(rows)]
    IN /\ pc[p] = "af_select"
       /\ pc' = [pc EXCEPT ![p] =
            IF Len(rows) # 0 THEN "af_update" ELSE "rc_update"]
       /\ loc' = [loc EXCEPT ![p] =
            IF Len(rows) # 0 THEN l1
            ELSE Succeed(l1, Msg("add_friends", <<0>>, <<>>))]
       /\ UNCHANGED <<db, Pure>>

\* the UPDATE without "AND industry LIKE ?"
AddFriendsUpdateRows_NoFilter(rows, target) ==
    {IF NotYiTianJia(c)
     THEN [c EXCEPT !.add_status = YiTianJia] ELSE c : c \in rows}

\* add_friends: UPDATE customers SET add_status='已添加' WHERE ...
AddFriendsUpdateRows(rows, target) ==
    {IF AddFriendsWhere(c, target)
     THEN [c EXCEPT !.add_status = YiTianJia] ELSE c : c \in rows}

AddFriendsUpdate(p) ==
    LET l == loc[p]
    IN /\ pc[p] = "af_update"
       /\ customers' = AddFriendsUpdateRows(customers, l.parsed.target)
       /\ pc' = [pc EXCEPT ![p] = "rc_update"]
       /\ loc' = [loc EXCEPT ![p] =
            Succeed(l, Msg("add_friends", <<l.count>>, <<>>))]
       /\ UNCHANGED <<templates, message_logs, command_logs,
                      sqlite_sequence, Pure>>

\* the check "if not template" is left out
NoTemplate_Never(t) == FALSE

\* if not template: (fetchone returned None)
NoTemplate(t) == t.id = 0

\* send_messages: the template lookup by keyword (name LIKE only)
SendTemplateByKeyword(p) ==
    LET l == loc[p]
        t == TemplateByKeyword(l.parsed.template_keyword)
    IN /\ pc[p] = "sm_template_kw"
       /\ pc' = [pc EXCEPT ![p] =
            IF NoTemplate(t) THEN "sm_template_first" ELSE "sm_select"]
       /\ loc' = [loc EXCEPT ![p] = [l EXCEPT !.template = t]]
       /\ UNCHANGED <<db, Pure>>

\* send_messages: the fallback lookup; no template at all ends the branch
SendTemplateFirst(p) ==
    LET l == loc[p]
        t == FirstTemplate
    IN /\ pc[p] = "sm_template_first"
       /\ pc' = [pc EXCEPT ![p] =
            IF NoTemplate(t) THEN "rc_update" ELSE "sm_select"]
       /\ loc' = [loc EXCEPT ![p] =
            IF NoTemplate(t)
            THEN Succeed(l, Msg("not_configured", <<>>, <<>>))
            ELSE [l EXCEPT !.template = t]]
       /\ UNCHANGED <<db, Pure>>

\* send_messages: the customers fetched; an empty list skips the loop
SendSelectCustomers(p) ==
    LET l == loc[p]
        rows == SendSelect
        l1 == [l EXCEPT !.selected = rows]
    IN /\ pc[p] = "sm_select"
       /\ pc' = [pc EXCEPT ![p] =
            IF rows # <<>> THEN "sm_insert" ELSE "rc_update"]
       /\ loc' = [loc EXCEPT ![p] =
            IF rows # <<>> THEN l1
            ELSE Succeed(l1, Msg("send_messages", <<0>>, <<>>))]
       /\ UNCHANGED <<db, Pure>>

\* the row of one loop iteration, for the customer fetched
SendRow(id, customer, template) ==
    [id |-> id, customer_id |-> customer.id, send_type |-> QunFa,
     message_content |-> render_template_content(template.content, customer),
     status |-> FaSongChengGong, error |-> Null]

\* send_messages: one INSERT INTO message_logs of the loop
SendInsert(p) ==
    LET l == loc[p]
        c == l.selected[l.i + 1]
        id == sqlite_sequence.message_logs + 1
        last == l.i + 1 = Len(l.selected)
        l1 == [l EXCEPT !.i = l.i + 1, !.count = l.count + 1,
                        !.ins = l.ins \cup {id}]
    IN /\ pc[p] = "sm_insert"
       /\ message_logs' = message_logs \cup {SendRow(id, c, l.template)}
       /\ sqlite_sequence' = [sqlite_sequence EXCEPT !.message_logs = id]
       /\ pc' = [pc EXCEPT ![p] = IF last THEN "rc_update" ELSE @]
       /\ loc' = [loc EXCEPT ![p] =
            IF last
            THEN Succeed(l1, Msg("send_messages", <<l1.count>>, <<>>))
            ELSE l1]
       /\ UNCHANGED <<customers, templates, command_logs, Pure>>

\* generate_report: SELECT COUNT(*) FROM customers
ReportTotal(p) ==
    /\ pc[p] = "gr_total"
    /\ pc' = [pc EXCEPT ![p] = "gr_added"]
    /\ loc' = [loc EXCEPT ![p].count = Cardinality(customers)]
    /\ UNCHANGED <<db, Pure>>

\* generate_report: SELECT COUNT(*) ... WHERE add_status = '已添加'
ReportAdded(p) ==
    /\ pc[p] = "gr_added"
    /\ pc' = [pc EXCEPT ![p] = "gr_messages"]
    /\ loc' = [loc EXCEPT ![p].added =
         Cardinality({c \in customers : c.add_status = YiTianJia})]
    /\ UNCHANGED <<db, Pure>>

\* the third count taken from command_logs
ReportMessages_CountsCommandLogs(p) ==
    LET l == loc[p]
    IN /\ pc[p] = "gr_messages"
       /\ pc' = [pc EXCEPT ![p] = "rc_update"]
       /\ loc' = [loc EXCEPT ![p] =
            Succeed(l, Msg("generate_report",
                           <<l.count, l.added, Cardinality(command_logs)>>,
                           <<>>))]
       /\ UNCHANGED <<db, Pure>>

\* generate_report: SELECT COUNT(*) FROM message_logs, and the message
ReportMessages(p) ==
    LET l == loc[p]
    IN /\ pc[p] = "gr_messages"
       /\ pc' = [pc EXCEPT ![p] = "rc_update"]
       /\ loc' = [loc EXCEPT ![p] =
            Succeed(l, Msg("generate_report",
                           <<l.count, l.added, Cardinality(message_logs)>>,
                           <<>>))]
       /\ UNCHANGED <<db, Pure>>

\* statements of process_command, inside the try block of receive_command
DispatchPcs ==
    {"gather_insert", "af_select", "af_update", "sm_template_kw",
     "sm_template_first", "sm_select", "sm_insert", "gr_total", "gr_added",
     "gr_messages"}

\* the statement at pc raises (sqlite3 error): caught by except Exception;
\* rows committed by earlier statements stay
Raise(p) ==
    /\ pc[p] \in DispatchPcs
    /\ pc' = [pc EXCEPT ![p] = "rc_update"]
    /\ loc' = [loc EXCEPT ![p] = Fail(loc[p])]
    /\ UNCHANGED <<db, Pure>>

\* UPDATE command_logs SET result=?, error=?, status=? ... WHERE id = cmd_id,
\* then the redirect
UpdateRow(r, l) ==
    [r EXCEPT !.result = l.result, !.error = l.error, !.status = l.status]

\* the UPDATE without "WHERE id=?"
UpdateCommandLog_AllRows(p) ==
    LET l == loc[p]
    IN /\ pc[p] = "rc_update"
       /\ command_logs' = {UpdateRow(r, l) : r \in command_logs}
       /\ pc' = [pc EXCEPT ![p] = "respond"]
       /\ loc' = [loc EXCEPT ![p].response = 303]
       /\ UNCHANGED <<customers, templates, message_logs, sqlite_sequence,
                      Pure>>

UpdateCommandLog(p) ==
    LET l == loc[p]
    IN /\ pc[p] = "rc_update"
       /\ command_logs' =
            {IF r.id = l.cmd_id THEN UpdateRow(r, l) ELSE r :
                r \in command_logs}
       /\ pc' = [pc EXCEPT ![p] = "respond"]
       /\ loc' = [loc EXCEPT ![p].response = 303]
       /\ UNCHANGED <<customers, templates, message_logs, sqlite_sequence,
                      Pure>>

\* the UPDATE of command_logs, outside the try block, raises: the handler
\* ends with a 500 and the row stays as it was inserted
Abort(p) ==
    /\ pc[p] = "rc_update"
    /\ pc' = [pc EXCEPT ![p] = "respond"]
    /\ loc' = [loc EXCEPT ![p].response = 500]
    /\ UNCHANGED <<db, Pure>>

\* the response is sent; the handler's frame is gone
Respond(p) ==
    /\ pc[p] = "respond"
    /\ pc' = [pc EXCEPT ![p] = "idle"]
    /\ loc' = [loc EXCEPT ![p] = InitLoc]
    /\ UNCHANGED <<db, Pure>>

\* ------------------------------------------------------------ customer and template routes

\* the INSERT with add_status taken from the form
AddCustomer_FormStatus(p, form) ==
    LET id == sqlite_sequence.customers + 1
    IN /\ pc[p] = "idle"
       /\ customers' = customers \cup
            {[id |-> id, name |-> form.name, industry |-> form.industry,
              company |-> form.company, channel |-> Null,
              add_status |-> form.add_status]}
       /\ sqlite_sequence' = [sqlite_sequence EXCEPT !.customers = id]
       /\ pc' = [pc EXCEPT ![p] = "respond"]
       /\ loc' = [loc EXCEPT ![p] =
            [InitLoc EXCEPT !.handler = "add_customer", !.response = 303]]
       /\ UNCHANGED <<templates, message_logs, command_logs, Pure>>

\* POST /customers/add: one INSERT, add_status "未添加"
AddCustomer(p, form) ==
    LET id == sqlite_sequence.customers + 1
    IN /\ pc[p] = "idle"
       /\ customers' = customers \cup
            {[id |-> id, name |-> form.name, industry |-> form.industry,
              company |-> form.company, channel |-> Null,
              add_status |-> WeiTianJia]}
       /\ sqlite_sequence' = [sqlite_sequence EXCEPT !.customers = id]
       /\ pc' = [pc EXCEPT ![p] = "respond"]
       /\ loc' = [loc EXCEPT ![p] =
            [InitLoc EXCEPT !.handler = "add_customer", !.response = 303]]
       /\ UNCHANGED <<templates, message_logs, command_logs, Pure>>

\* POST /customers/edit/{id}: SELECT id ... ; 404 when there is no such row
EditCustomerCheck(p, customer_id, form) ==
    LET existing == \E c \in customers : c.id = customer_id
        l0 == [InitLoc EXCEPT !.handler = "edit_customer"]
    IN /\ pc[p] = "idle"
       /\ pc' = [pc EXCEPT ![p] = IF existing THEN "ec_update" ELSE "respond"]
       /\ loc' = [loc EXCEPT ![p] =
            IF existing
            THEN [l0 EXCEPT !.target_id = customer_id, !.form = form]
            ELSE [l0 EXCEPT !.response = 404]]
       /\ UNCHANGED <<db, Pure>>

\* POST /customers/edit/{id}: UPDATE customers SET ... WHERE id=?
EditCustomerUpdate(p) ==
    LET l == loc[p]
    IN /\ pc[p] = "ec_update"
       /\ customers' =
            {IF c.id = l.target_id
             THEN [c EXCEPT !.name = l.form.name,
                            !.industry = l.form.industry,
                            !.company = l.form.company,
                            !.channel = Null,
                            !.add_status = l.form.add_status]
             ELSE c : c \in customers}
       /\ pc' = [pc EXCEPT ![p] = "respond"]
       /\ loc' = [loc EXCEPT ![p] =
            [InitLoc EXCEPT !.handler = l.handler, !.response = 303]]
       /\ UNCHANGED <<templates, message_logs, command_logs,
                      sqlite_sequence, Pure>>

\* the delete with the customer's message_logs rows removed as well
DeleteCustomer_Cascade(p, customer_id) ==
    /\ pc[p] = "idle"
    /\ customers' = {c \in customers : c.id # customer_id}
    /\ message_logs' = {m \in message_logs : m.customer_id # customer_id}
    /\ pc' = [pc EXCEPT ![p] = "respond"]
    /\ loc' = [loc EXCEPT ![p] =
         [InitLoc EXCEPT !.handler = "delete_customer", !.response = 303]]
    /\ UNCHANGED <<templates, command_logs, sqlite_sequence, Pure>>

\* POST /customers/delete/{id}: DELETE FROM customers WHERE id = ?
DeleteCustomer(p, customer_id) ==
    /\ pc[p] = "idle"
    /\ customers' = {c \in customers : c.id # customer_id}
    /\ pc' = [pc EXCEPT ![p] = "respond"]
    /\ loc' = [loc EXCEPT ![p] =
         [InitLoc EXCEPT !.handler = "delete_customer", !.response = 303]]
    /\ UNCHANGED <<templates, message_logs, command_logs, sqlite_sequence,
                   Pure>>

\* POST /templates/add
AddTemplate(p, form) ==
    LET id == sqlite_sequence.templates + 1
    IN /\ pc[p] = "idle"
       /\ templates' = templates \cup
            {[id |-> id, name |-> form.name, content |-> form.content]}
       /\ sqlite_sequence' = [sqlite_sequence EXCEPT !.templates = id]
       /\ pc' = [pc EXCEPT ![p] = "respond"]
       /\ loc' = [loc EXCEPT ![p] =
            [InitLoc EXCEPT !.handler = "add_template", !.response = 303]]
       /\ UNCHANGED <<customers, message_logs, command_logs, Pure>>

\* POST /templates/edit/{id}: SELECT id ... ; 404 when there is no such row
EditTemplateCheck(p, template_id, form) ==
    LET existing == \E t \in templates : t.id = template_id
        l0 == [InitLoc EXCEPT !.handler = "edit_template"]
    IN /\ pc[p] = "idle"
       /\ pc' = [pc EXCEPT ![p] = IF existing THEN "et_update" ELSE "respond"]
       /\ loc' = [loc EXCEPT ![p] =
            IF existing
            THEN [l0 EXCEPT !.target_id = template_id, !.form = form]
            ELSE [l0 EXCEPT !.response = 404]]
       /\ UNCHANGED <<db, Pure>>

\* POST /templates/edit/{id}: UPDATE templates SET ... WHERE id=?
EditTemplateUpdate(p) ==
    LET l == loc[p]
    IN /\ pc[p] = "et_update"
       /\ templates' =
            {IF t.id = l.target_id
             THEN [t EXCEPT !.name = l.form.name, !.content = l.form.content]
             ELSE t : t \in templates}
       /\ pc' = [pc EXCEPT ![p] = "respond"]
       /\ loc' = [loc EXCEPT ![p] =
            [InitLoc EXCEPT !.handler = l.handler, !.response = 303]]
       /\ UNCHANGED <<customers, message_logs, command_logs,
                      sqlite_sequence, Pure>>

\* POST /templates/delete/{id}
DeleteTemplate(p, template_id) ==
    /\ pc[p] = "idle"
    /\ templates' = {t \in templates : t.id # template_id}
    /\ pc' = [pc EXCEPT ![p] = "respond"]
    /\ loc' = [loc EXCEPT ![p] =
         [InitLoc EXCEPT !.handler = "delete_template", !.response = 303]]
    /\ UNCHANGED <<customers, message_logs, command_logs, sqlite_sequence,
                   Pure>>

\* ------------------------------------------------------------ specifications

\* the lists generate_fake_customers can return for the gather commands
DraftLists ==
    UNION {generate_fake_customers(Parsed[c].industry, Parsed[c].number) :
              c \in GatherCommands}

RoomForCommand == sqlite_sequence.command_logs < MaxCommands
\* a command is received while the rows it will insert fit the bounds
CommandFits(c) ==
    /\ RoomForCommand
    /\ Parsed[c].action = "gather" => RoomForCustomers(Parsed[c].number)
RoomForTemplate == sqlite_sequence.templates < MaxTemplates

\* the end of every command handler: the except path, the log update, an
\* error outside the try block, the response
CommandEnd(p) ==
    \/ Raise(p)
    \/ UpdateCommandLog(p)
    \/ Abort(p)
    \/ Respond(p)

\* the customer routes
CustomerRoutes(p, forms) ==
    \/ \E f \in forms : RoomForCustomers(1) /\ AddCustomer(p, f)
    \/ \E id \in 1..MaxCustomers, f \in forms : EditCustomerCheck(p, id, f)
    \/ EditCustomerUpdate(p)
    \/ \E id \in 1..MaxCustomers : DeleteCustomer(p, id)

\* the template routes
TemplateRoutes(p) ==
    \/ \E f \in TemplateForms : RoomForTemplate /\ AddTemplate(p, f)
    \/ \E id \in 1..MaxTemplates, f \in TemplateForms :
            EditTemplateCheck(p, id, f)
    \/ EditTemplateUpdate(p)
    \/ \E id \in 1..MaxTemplates : DeleteTemplate(p, id)

\* the worker of the specifications that handle one request at a time
SeqWorker == "w1"

Init == InitDb /\ arg = <<>> /\ ret = <<>>

\* add-friends commands and the customer routes, one request at a time
NextAddFriends ==
    \/ \E c \in AddFriendsCommands :
            RoomForCommand /\ ReceiveCommand(SeqWorker, c, <<>>)
    \/ AddFriendsSelect(SeqWorker)
    \/ AddFriendsUpdate(SeqWorker)
    \/ CommandEnd(SeqWorker)
    \/ CustomerRoutes(SeqWorker, CustomerForms)

SpecAddFriends == Init /\ [][NextAddFriends]_vars

\* send-messages commands, the template routes and the customer routes that
\* make a customer "已添加", one request at a time
SendCustomerForms ==
    {f \in CustomerForms :
        f.industry = <<"can", "yin">> /\ f.add_status \in {WeiTianJia, YiTianJia}}

NextSend ==
    \/ \E c \in SendCommands :
            RoomForCommand /\ ReceiveCommand(SeqWorker, c, <<>>)
    \/ SendTemplateByKeyword(SeqWorker)
    \/ SendTemplateFirst(SeqWorker)
    \/ SendSelectCustomers(SeqWorker)
    \/ SendInsert(SeqWorker)
    \/ CommandEnd(SeqWorker)
    \/ \E f \in SendCustomerForms :
            RoomForCustomers(1) /\ AddCustomer(SeqWorker, f)
    \/ \E id \in 1..MaxCustomers, f \in SendCustomerForms :
            EditCustomerCheck(SeqWorker, id, f)
    \/ EditCustomerUpdate(SeqWorker)
    \/ \E f \in TemplateForms : RoomForTemplate /\ AddTemplate(SeqWorker, f)
    \/ \E id \in 1..MaxTemplates : DeleteTemplate(SeqWorker, id)

SpecSend == Init /\ [][NextSend]_vars

\* gather commands and the customer routes, one request at a time
GatherCustomerForms ==
    {f \in CustomerForms :
        f.industry = <<"can", "yin">> /\ f.add_status \in {WeiTianJia, Null}}

NextGather ==
    \/ \E c \in GatherCommands, d \in DraftLists :
            CommandFits(c) /\ ReceiveCommand(SeqWorker, c, d)
    \/ GatherInsert(SeqWorker)
    \/ CommandEnd(SeqWorker)
    \/ CustomerRoutes(SeqWorker, GatherCustomerForms)

SpecGather == Init /\ [][NextGather]_vars

\* stores the concurrent specification starts from: the empty store, and a
\* store with one template and one customer marked "已添加" (the routes reach
\* it: add_template, add_customer, edit_customer)
SeedCustomer ==
    [id |-> 1, name |-> <<"zhang", "san">>, industry |-> <<"can", "yin">>,
     company |-> Null, channel |-> Null, add_status |-> YiTianJia]
SeedTemplate == [id |-> 1, name |-> GenJin, content |-> TokName]

InitSeeded ==
    /\ customers = {SeedCustomer}
    /\ templates = {SeedTemplate}
    /\ message_logs = {}
    /\ command_logs = {}
    /\ sqlite_sequence =
        [customers |-> 1, templates |-> 1, message_logs |-> 0,
         command_logs |-> 0]
    /\ pc = [p \in Workers |-> "idle"]
    /\ loc = [p \in Workers |-> InitLoc]
    /\ arg = <<>>
    /\ ret = <<>>

ConcurrentCommands ==
    {<<"sou", "ji", "can", "hang", "ye", "ke", "hu", "xin", "xi", "2", "tiao">>,
     <<"tian", "jia", "ke", "hu", "ke", "hu">>,
     <<"qun", "fa", "huan", "ying">>,
     <<"zan", "ting">>}

\* requests are handled concurrently, interleaved statement by statement
Next ==
    \E p \in Workers :
        \/ \E c \in ConcurrentCommands, d \in DraftLists :
                CommandFits(c) /\ ReceiveCommand(p, c, d)
        \/ GatherInsert(p)
        \/ AddFriendsSelect(p)
        \/ AddFriendsUpdate(p)
        \/ SendTemplateByKeyword(p)
        \/ SendTemplateFirst(p)
        \/ SendSelectCustomers(p)
        \/ SendInsert(p)
        \/ CommandEnd(p)

Spec == (Init \/ InitSeeded) /\ [][Next]_vars

\* ------------------------------------------------------------ specifications of the pure functions

Pending == ParseResult("pending", <<>>)

\* command texts: a prefix, the pieces of a gather command (each present,
\* absent or varied), a suffix
ParsePrefixes ==
    {<<>>, <<" ">>, TianJia \o <<"can">> \o KeHu, QunFa, ZanTing}
ParseVerbs == {<<>>, SouJi}
ParseIndustries ==
    {<<>>, <<"can">>, <<"can", "yin">>, <<"can", "hang">>, <<"_", "1">>}
ParseHangYe == {<<>>, <<"hang">>, <<"hang", "ye">>, <<"ye">>}
ParseObjects == {<<>>, KeHuXinXi, KeHu}
ParseNumbers == {<<>>, <<"1", "2">>}
ParseUnits == {<<>>, <<"tiao">>}
ParseSuffixes ==
    {<<>>, <<"!", " ">>, QunFa \o HuanYing, FaSong \o HuoDong, BaoGao,
     JianBao, TingZhi, ZhongZhi, ZanTing, ZanTing \o <<"zhi">>,
     TingZhi \o ZanTing, TianJia \o <<"ye">> \o KeHu \o BaoGao}

ParseInputs ==
    {a \o b \o c \o d \o e \o f \o g \o h :
        a \in ParsePrefixes, b \in ParseVerbs, c \in ParseIndustries,
        d \in ParseHangYe, e \in ParseObjects, f \in ParseNumbers,
        g \in ParseUnits, h \in ParseSuffixes}

InitParse == InitDb /\ arg \in ParseInputs /\ ret = Pending

\* parse_command(text) is called
ParseCommand ==
    /\ ret = Pending
    /\ ret' = parse_command(arg)
    /\ UNCHANGED <<db, pc, loc, arg>>

SpecParse == InitParse /\ [][ParseCommand]_vars

\* templates and customer records handed to render_template_content
RenderTemplates ==
    {<<>>, TokName, TokIndustry, TokCompany,
     <<"!">> \o TokName \o <<"!">> \o TokCompany,
     TokIndustry \o TokName, TokName \o TokName,
     <<"{", "zhang", "}">> \o TokName, <<"{">> \o TokCompany \o <<"}">>}
RenderNames == {Null, <<"zhang", "san">>, TokIndustry, TokCompany, <<"{">>}
RenderIndustries == {Null, <<"can">>, TokCompany, TokName}
RenderCompanies == {Null, <<"gong", "si">>, TokName}

RenderInputs ==
    [template : RenderTemplates,
     customer : [name : RenderNames, industry : RenderIndustries,
                 company : RenderCompanies]]

NotRendered == <<"PENDING">>

InitRender == InitDb /\ arg \in RenderInputs /\ ret = NotRendered

\* render_template_content(template_content, customer) is called
RenderTemplate ==
    /\ ret = NotRendered
    /\ ret' = render_template_content(arg.template, arg.customer)
    /\ UNCHANGED <<db, pc, loc, arg>>

SpecRender == InitRender /\ [][RenderTemplate]_vars

\* ------------------------------------------------------------ C1

\* the action of the earliest rule, in the order Gather, AddFriends,
\* SendMessages, GenerateReport, Stop, Pause, that the text satisfies
FirstRuleAction(command) ==
    CASE GatherRule(command) -> "gather"
      [] ~GatherRule(command) /\ AddFriendsRule(command) -> "add_friends"
      [] ~GatherRule(command) /\ ~AddFriendsRule(command)
         /\ SendMessagesRule(command) -> "send_messages"
      [] ~GatherRule(command) /\ ~AddFriendsRule(command)
         /\ ~SendMessagesRule(command) /\ GenerateReportRule(command)
            -> "generate_report"
      [] ~GatherRule(command) /\ ~AddFriendsRule(command)
         /\ ~SendMessagesRule(command) /\ ~GenerateReportRule(command)
         /\ StopRule(command) -> "stop"
      [] ~GatherRule(command) /\ ~AddFriendsRule(command)
         /\ ~SendMessagesRule(command) /\ ~GenerateReportRule(command)
         /\ ~StopRule(command) /\ PauseRule(command) -> "pause"
      [] OTHER -> "unknown"

\* C1: parse_command returns the action of the earliest rule, in the order
\* Gather, AddFriends, SendMessages, GenerateReport, Stop, Pause, that the
\* text satisfies, whatever later rules it satisfies too, and Unknown when it
\* satisfies none.
C1_FirstMatchingRuleWins ==
    ret # Pending => ret.action = FirstRuleAction(Strip(arg))

\* a text with a gather pattern, an add-friends pattern and "群发" was
\* classified as gather
C1_Witness ==
    /\ ret # Pending
    /\ ret.action = "gather"
    /\ AddFriendsRule(Strip(arg))
    /\ SendMessagesRule(Strip(arg))

\* ------------------------------------------------------------ C2

\* the decompositions <<industry, number>> of a text as
\* "搜集" industry ["行业"] "客户信息" digits "条", "行业" present or omitted
OptionalHangYeGathers(s) ==
    {[industry |-> SubSeq(s, m[1] + 2, m[2]),
      number |-> DigitsToInt(SubSeq(s, m[3] + 4, DigitRunEnd(s, m[3] + 4)))] :
        m \in {x \in (1..Len(s)) \X (1..Len(s)) \X (1..Len(s)) :
                /\ MatchAt(s, x[1], SouJi)
                /\ x[2] >= x[1] + 2
                /\ \A k \in (x[1] + 2)..x[2] : s[k] \in WordChars
                /\ \/ x[3] = x[2] + 1
                   \/ x[3] = x[2] + 3 /\ MatchAt(s, x[2] + 1, <<HangCh, YeCh>>)
                /\ GatherTailAt(s, x[3])}}

\* C2: every text containing "搜集" + a non-empty industry run + "客户信息" +
\* a digit run + "条" is classified as Gather with that industry and number,
\* with "行业" after the industry name or with "行业" omitted.
C2_HangYeOptional ==
    (ret # Pending /\ OptionalHangYeGathers(Strip(arg)) # {}) =>
        /\ ret.action = "gather"
        /\ [industry |-> ret.industry, number |-> ret.number]
              \in OptionalHangYeGathers(Strip(arg))

\* ------------------------------------------------------------ C10

RECURSIVE SinglePass(_, _)
\* one left-to-right pass over the template: a fixed token is replaced by its
\* field value, which is not scanned again; anything else is copied
SinglePass(t, customer) ==
    IF t = <<>> THEN <<>>
    ELSE IF MatchAt(t, 1, TokName)
    THEN OrEmpty(customer.name)
            \o SinglePass(SubSeq(t, Len(TokName) + 1, Len(t)), customer)
    ELSE IF MatchAt(t, 1, TokIndustry)
    THEN OrEmpty(customer.industry)
            \o SinglePass(SubSeq(t, Len(TokIndustry) + 1, Len(t)), customer)
    ELSE IF MatchAt(t, 1, TokCompany)
    THEN OrEmpty(customer.company)
            \o SinglePass(SubSeq(t, Len(TokCompany) + 1, Len(t)), customer)
    ELSE <<Head(t)>> \o SinglePass(Tail(t), customer)

\* C10: the rendered text is the template with each of the three fixed
\* tokens replaced by its field value (empty for an absent field) in a single
\* pass: a value that contains another token's text appears verbatim, and
\* every other character is left untouched.
C10_SinglePass ==
    ret # NotRendered => ret = SinglePass(arg.template, arg.customer)

\* ------------------------------------------------------------ C3

\* a customer the claim says AddFriends marks: add_status is not "已添加",
\* and, when a target other than "客户" is given, industry contains it
ToBeAdded(c, target) ==
    /\ c.add_status # YiTianJia
    /\ TargetGiven(target) => (c.industry # Null /\ Contains(c.industry, target))

\* the customers table after marking exactly those rows
MarkedAdded(rows, target) ==
    {IF ToBeAdded(c, target) THEN [c EXCEPT !.add_status = YiTianJia] ELSE c :
        c \in rows}

\* the add_friends branch returns normally in this step
AddFriendsReturns(p) ==
    /\ pc[p] \in {"af_select", "af_update"}
    /\ pc'[p] = "rc_update"
    /\ loc'[p].status = ZhiXingChengGong

\* C3: with one request at a time, when the add_friends branch returns the
\* customers table is the table before it with add_status set to "已添加" in
\* exactly the rows whose add_status was not "已添加" (and whose industry
\* contains the target, when one other than "客户" is given), every other
\* row and field as before, and the count in the message is the number of
\* rows changed.
C3_AddFriendsMarksExactly ==
    [][\A p \in Workers :
        AddFriendsReturns(p) =>
            /\ customers' = MarkedAdded(customers, loc[p].parsed.target)
            /\ loc'[p].result.nums[1] =
                Cardinality({c \in customers :
                                ToBeAdded(c, loc[p].parsed.target)})]_vars

\* ------------------------------------------------------------ C4

CommandHandlers == {p \in Workers : loc[p].handler = "receive_command"}

\* the send_messages branch of worker p has returned its count message
SendReturned(p) ==
    /\ p \in CommandHandlers
    /\ pc[p] \in {"rc_update", "respond"}
    /\ loc[p].result.kind = "send_messages"

SendPcs == {"sm_template_kw", "sm_template_first", "sm_select", "sm_insert"}

\* the message_logs rows whose ids the loop of worker p got back
InsertedLogs(p) == {m \in message_logs : m.id \in loc[p].ins}

C4_Returned(p) ==
    SendReturned(p) =>
        /\ Cardinality(InsertedLogs(p)) = Len(loc[p].selected)
        /\ loc[p].result.nums = <<Cardinality(InsertedLogs(p))>>
        /\ \A k \in 1..Len(loc[p].selected) :
            Cardinality({m \in InsertedLogs(p) :
                            m.customer_id = loc[p].selected[k].id}) = 1
        /\ \A m \in InsertedLogs(p) :
            /\ \E k \in 1..Len(loc[p].selected) :
                    m.customer_id = loc[p].selected[k].id
            /\ m.send_type = QunFa
            /\ m.status = FaSongChengGong
            /\ m.error = Null

C4_Step(p) ==
    /\ \* the selection is the customers "已添加" at that moment, each once
       (pc[p] = "sm_select" /\ pc'[p] \in {"sm_insert", "rc_update"}
            /\ loc'[p].error = Null) =>
            /\ {loc'[p].selected[k].id : k \in 1..Len(loc'[p].selected)} =
                    {c.id : c \in {x \in customers : x.add_status = YiTianJia}}
            /\ Len(loc'[p].selected) =
                    Cardinality({x \in customers : x.add_status = YiTianJia})
    /\ \* the branch changes no customer and no template, and every row it
       \* adds to message_logs is one its loop inserted
       pc[p] \in SendPcs =>
            /\ customers' = customers
            /\ templates' = templates
            /\ message_logs \subseteq message_logs'
            /\ {m.id : m \in message_logs' \ message_logs} =
                    loc'[p].ins \ loc[p].ins

\* C4: with a template in the store, the send_messages branch inserts
\* exactly one message_logs row for each customer that was "已添加" when it
\* selected them and none for any other; each row carries that customer's id,
\* send_type "群发", status "发送成功" and no error; the count in the message
\* is the number of rows inserted; customers and templates are unchanged.
C4_OneLogPerAddedCustomer ==
    /\ [](\A p \in Workers : C4_Returned(p))
    /\ [][\A p \in Workers : C4_Step(p)]_vars

\* a send returned after inserting a row, with a customer not "已添加" left out
C4_Witness ==
    \E p \in Workers :
        /\ SendReturned(p)
        /\ pc[p] = "respond"
        /\ loc[p].ins # {}
        /\ \E c \in customers : c.add_status # YiTianJia

\* ------------------------------------------------------------ C5

\* the row of command_logs that worker p inserted
LogRow(p) == CHOOSE r \in command_logs : r.id = loc[p].cmd_id

SendOnEmptyTemplates(p) ==
    /\ p \in CommandHandlers
    /\ loc[p].parsed.action = "send_messages"
    /\ templates = {}
    /\ loc[p].error = Null

\* C5: a send_messages command that finds the templates table empty returns
\* the "not configured" message as a normal result (command status
\* "执行成功", no error) and inserts no message_logs row, with or without a
\* keyword and whatever customers are "已添加".
C5_NotConfigured ==
    /\ [](\A p \in Workers :
            /\ (SendOnEmptyTemplates(p) /\ pc[p] \notin {"sm_template_kw",
                                                          "sm_template_first"})
                    => /\ pc[p] \in {"rc_update", "respond"}
                       /\ loc[p].result = Msg("not_configured", <<>>, <<>>)
                       /\ loc[p].status = ZhiXingChengGong
                       /\ loc[p].ins = {}
            /\ (SendOnEmptyTemplates(p) /\ pc[p] = "respond"
                    /\ loc[p].response = 303)
                    => /\ LogRow(p).status = ZhiXingChengGong
                       /\ LogRow(p).result = Msg("not_configured", <<>>, <<>>)
                       /\ LogRow(p).error = Null)
    /\ [][\A p \in Workers :
            (SendOnEmptyTemplates(p) /\ pc[p] # "respond")
                => message_logs' = message_logs]_vars

\* a keyword send with a customer "已添加" and no template was answered
C5_Witness ==
    \E p \in Workers :
        /\ SendOnEmptyTemplates(p)
        /\ pc[p] = "respond"
        /\ loc[p].response = 303
        /\ loc[p].parsed.template_keyword # Null
        /\ \E c \in customers : c.add_status = YiTianJia

\* ------------------------------------------------------------ C6

\* the template the claim names: the lowest id among those `matches` holds
\* of when there is a keyword and any match, else the lowest id overall
LowestId(rows) == CHOOSE t \in rows : \A u \in rows : t.id <= u.id
ResolvedTemplate(kw, matches(_, _)) ==
    IF kw # Null /\ \E t \in templates : matches(t, kw)
    THEN LowestId({t \in templates : matches(t, kw)})
    ELSE LowestId(templates)

NameContains(t, kw) == Contains(t.name, kw)
NameOrContentContains(t, kw) == Contains(t.name, kw) \/ Contains(t.content, kw)

TemplateResolved(p) ==
    /\ p \in CommandHandlers
    /\ pc[p] \in {"sm_select", "sm_insert"}

\* C6 as stated: with a keyword, the lowest-id template whose content or
\* name contains it is used; with none, or no match, the lowest-id template.
C6_ByNameOrContent ==
    \A p \in Workers :
        TemplateResolved(p) =>
            loc[p].template =
                ResolvedTemplate(loc[p].parsed.template_keyword,
                                 NameOrContentContains)

\* C6 amended: with a keyword, the lowest-id template whose name contains it
\* is used (the content is not searched); with no keyword, or no name that
\* contains it, the lowest-id template overall.
C6_ByName ==
    \A p \in Workers :
        TemplateResolved(p) =>
            loc[p].template =
                ResolvedTemplate(loc[p].parsed.template_keyword, NameContains)

\* the keyword picked template 2 by its name although template 1 exists
C6_Witness ==
    \E p \in Workers :
        /\ TemplateResolved(p)
        /\ loc[p].parsed.template_keyword # Null
        /\ loc[p].template.id = 2
        /\ \E t \in templates : t.id = 1

\* ------------------------------------------------------------ C7

\* the gather branch of worker p has returned its message
GatherReturned(p) ==
    /\ p \in CommandHandlers
    /\ pc[p] \in {"rc_update", "respond"}
    /\ loc[p].parsed.action = "gather"
    /\ loc[p].error = Null

C7_Returned(p) ==
    GatherReturned(p) =>
        /\ Cardinality(loc[p].ins) = loc[p].parsed.number
        /\ loc[p].result =
              Msg("gather", <<loc[p].parsed.number>>, loc[p].parsed.industry)
        /\ \A id \in loc[p].ins :
              \E c \in customers :
                  /\ c.id = id
                  /\ c.industry = loc[p].parsed.industry
                  /\ c.channel = ZiDongShengCheng
                  /\ c.add_status = WeiTianJia

C7_Step(p) ==
    (p \in CommandHandlers /\ loc[p].parsed.action = "gather"
        /\ pc[p] # "respond") =>
            /\ customers \subseteq customers'
            /\ {c.id : c \in customers' \ customers} = loc'[p].ins \ loc[p].ins
            /\ \A c \in customers' \ customers :
                    \A d \in customers : d.id # c.id

\* C7: one request at a time, a gather command for industry and N inserts
\* exactly N new customers rows, each with that industry, channel "自动生成"
\* and add_status "未添加"; the rows there before are unchanged; the message
\* reports N; for N = 0 nothing is inserted.
C7_GatherInsertsN ==
    /\ [](\A p \in Workers : C7_Returned(p))
    /\ [][\A p \in Workers : C7_Step(p)]_vars

\* a gather returned after inserting next to a row that was there before
C7_Witness ==
    \E p \in Workers :
        /\ GatherReturned(p)
        /\ pc[p] = "respond"
        /\ loc[p].ins # {}
        /\ \E c \in customers : c.id \notin loc[p].ins

\* ------------------------------------------------------------ C8

Terminal == {ZhiXingChengGong, ZhiXingShiBai}

C8_State(p) ==
    p \in CommandHandlers =>
        /\ Cardinality({r \in command_logs : r.id = loc[p].cmd_id}) = 1
        /\ pc[p] \in DispatchPcs \cup {"rc_update"} =>
                LogRow(p).status = ZhiXingZhong
        /\ (pc[p] = "respond" /\ loc[p].response = 303) =>
                LogRow(p).status \in Terminal

C8_Step ==
    /\ \* a row is inserted "执行中" under a fresh id, one per command received
       \A r \in command_logs' :
            (\A q \in command_logs : q.id # r.id) =>
                /\ r.status = ZhiXingZhong
                /\ r.id > sqlite_sequence.command_logs
                /\ \E p \in Workers :
                        /\ pc[p] = "idle"
                        /\ loc'[p].handler = "receive_command"
                        /\ loc'[p].cmd_id = r.id
    /\ \A p \in Workers :
            (pc[p] = "idle" /\ loc'[p].handler = "receive_command") =>
                Cardinality(command_logs') = Cardinality(command_logs) + 1
    /\ \* a row is changed only from "执行中" to a terminal status; a
       \* terminal row keeps status, result and error
       \A r \in command_logs :
            /\ \E q \in command_logs' : q.id = r.id
            /\ r.status \in Terminal => r \in command_logs'
            /\ r \notin command_logs' =>
                    \E q \in command_logs' :
                        q.id = r.id /\ q.status \in Terminal
    /\ \* customers and message_logs are changed only by a dispatch whose
       \* row is already there, "执行中"
       (customers' # customers \/ message_logs' # message_logs) =>
            \E p \in Workers :
                /\ pc[p] \in DispatchPcs
                /\ loc'[p] # loc[p]
                /\ \E r \in command_logs :
                        r.id = loc[p].cmd_id /\ r.status = ZhiXingZhong

Raised(p) ==
    /\ pc[p] \in DispatchPcs
    /\ pc'[p] = "rc_update"
    /\ loc[p].error = Null
    /\ loc'[p].error # Null

\* the rows the loop of worker p inserted are in its branch's table
InsertedRemain(p) ==
    \A id \in loc[p].ins :
        IF loc[p].parsed.action = "gather"
        THEN \E c \in customers : c.id = id
        ELSE \E m \in message_logs : m.id = id

C9_State(p) ==
    (p \in CommandHandlers /\ pc[p] = "respond" /\ loc[p].response = 303) =>
        /\ InsertedRemain(p)
        /\ IF loc[p].error # Null
           THEN /\ LogRow(p).status = ZhiXingShiBai
                /\ LogRow(p).error = ErrText
                /\ LogRow(p).result = NoMsg
           ELSE /\ LogRow(p).status = ZhiXingChengGong
                /\ LogRow(p).result = loc[p].result
                /\ LogRow(p).result # NoMsg
                /\ LogRow(p).error = Null

\* C9: an exception raised during dispatch is caught in receive_command: the
\* command's row ends "执行失败" with the exception text as error and no
\* result, and the rows the dispatch had written stay in the store; without
\* an exception the row ends "执行成功" with the result and no error.
C9_FailureRecorded ==
    /\ [](\A p \in Workers : C9_State(p))
    /\ [][\A p \in Workers :
            Raised(p) => UNCHANGED <<customers, templates, message_logs>>]_vars

\* a command failed after its loop had inserted a row, and the row is there
C9_Witness ==
    \E p \in Workers :
        /\ p \in CommandHandlers
        /\ pc[p] = "respond"
        /\ loc[p].response = 303
        /\ loc[p].error # Null
        /\ loc[p].ins # {}
        /\ LogRow(p).status = ZhiXingShiBai

\* ------------------------------------------------------------ C11

\* the customer and template routes, one request at a time
RouteCustomerForms ==
    {f \in CustomerForms :
        f.industry = <<"can", "yin">> /\ f.add_status \in {YiTianJia, Null}}

NextRoutes ==
    \/ CustomerRoutes(SeqWorker, RouteCustomerForms)
    \/ TemplateRoutes(SeqWorker)
    \/ Respond(SeqWorker)

SpecRoutes == Init /\ [][NextRoutes]_vars

\* the request that starts in this step is handled by route h
Starts(p, h) == pc[p] = "idle" /\ loc'[p].handler = h

\* the handler returns in this step, with a response other than the redirect
Refused(p) == pc'[p] = "respond" /\ loc'[p].response # 303

\* an edit request whose SELECT finds no row does not reach its UPDATE; a
\* delete request that removes no row targeted an id that is not there
C11_Step(p) ==
    /\ (Starts(p, "edit_customer") /\ pc'[p] # "ec_update") =>
            Refused(p) /\ UNCHANGED db
    /\ (Starts(p, "edit_template") /\ pc'[p] # "et_update") =>
            Refused(p) /\ UNCHANGED db
    /\ (Starts(p, "delete_customer") /\ customers' = customers) =>
            Refused(p) /\ UNCHANGED db
    /\ (Starts(p, "delete_template") /\ templates' = templates) =>
            Refused(p) /\ UNCHANGED db

\* C11: an edit or a delete request for a customer or template id that is
\* not in the store ends in a failure response, not the 303 redirect, and
\* changes no table.
C11_MissingTargetRefused == [][\A p \in Workers : C11_Step(p)]_vars

\* ------------------------------------------------------------ C12

\* the commands of the branches that change no table
NonMutating == {"generate_report", "pause", "stop", "unknown"}

\* a report has been asked for: from then on nothing but non-mutating
\* commands is received
ReportAsked ==
    \/ \E r \in command_logs : r.result.kind = "generate_report"
    \/ \E p \in Workers : loc[p].parsed.action = "generate_report"

\* the store is filled by the routes and by send commands, then reports,
\* pauses, stops and unrecognized texts are received, one request at a time
NextReport ==
    \/ \E c \in OtherCommands :
            RoomForCommand /\ ReceiveCommand(SeqWorker, c, <<>>)
    \/ ReportTotal(SeqWorker)
    \/ ReportAdded(SeqWorker)
    \/ ReportMessages(SeqWorker)
    \/ CommandEnd(SeqWorker)
    \/ \E c \in SendCommands :
            ~ReportAsked /\ RoomForCommand /\ ReceiveCommand(SeqWorker, c, <<>>)
    \/ SendTemplateByKeyword(SeqWorker)
    \/ SendTemplateFirst(SeqWorker)
    \/ SendSelectCustomers(SeqWorker)
    \/ SendInsert(SeqWorker)
    \/ \E f \in SendCustomerForms :
            ~ReportAsked /\ RoomForCustomers(1) /\ AddCustomer(SeqWorker, f)
    \/ \E id \in 1..MaxCustomers, f \in SendCustomerForms :
            ~ReportAsked /\ EditCustomerCheck(SeqWorker, id, f)
    \/ EditCustomerUpdate(SeqWorker)

SpecReport == (Init \/ InitSeeded) /\ [][NextReport]_vars

\* the worker takes this step
Acts(p) == pc'[p] # pc[p] \/ loc'[p] # loc[p]

\* the frame of the handler that takes the step
Frame(p) == IF pc[p] = "idle" THEN loc'[p] ELSE loc[p]

\* the counts of the store, as the report states them
StoreCounts ==
    <<Cardinality(customers),
      Cardinality({c \in customers : c.add_status = YiTianJia}),
      Cardinality(message_logs)>>

\* the counts the reports have returned: those logged and those in hand
ReportedCounts ==
    {r.result.nums : r \in {x \in command_logs :
                                x.result.kind = "generate_report"}}
    \cup {loc[p].result.nums : p \in {q \in Workers :
                                loc[q].result.kind = "generate_report"}}

C12_State ==
    /\ \* every report since the last mutation returned the store's counts
       ReportedCounts \subseteq {StoreCounts}
    /\ \* an unrecognized text is a normal result
       \A p \in CommandHandlers :
            (pc[p] = "respond" /\ loc[p].response = 303
                /\ loc[p].parsed.action = "unknown") =>
                    /\ LogRow(p).status = ZhiXingChengGong
                    /\ LogRow(p).result = Msg("unknown", <<>>, <<>>)
                    /\ LogRow(p).error = Null

C12_Step ==
    \A p \in Workers :
        (Acts(p) /\ Frame(p).handler = "receive_command"
            /\ Frame(p).parsed.action \in NonMutating) =>
                UNCHANGED <<customers, templates, message_logs>>

\* C12: a report, stop, pause or unrecognized command changes no customers,
\* templates or message_logs row; reports with no mutation between them
\* return the same three counts (those of the store); an unrecognized
\* command is logged "执行成功" with its message and no error.
C12_NonMutatingCommands == []C12_State /\ [][C12_Step]_vars

\* two reports were logged over a store that holds an added customer
C12_Witness ==
    \E r1, r2 \in command_logs :
        /\ r1.id # r2.id
        /\ r1.result.kind = "generate_report"
        /\ r2.result.kind = "generate_report"
        /\ r1.result.nums[2] >= 1

\* ------------------------------------------------------------ C13

\* commands of every mutating and reading kind, and every route, one
\* request at a time
LogCommands ==
    {<<"qun", "fa", "huan", "ying">>, <<"tian", "jia", "ke", "hu", "ke", "hu">>,
     <<"bao", "gao">>}
LogCustomerForms ==
    {f \in CustomerForms :
        f.industry = <<"can", "yin">> /\ f.add_status = YiTianJia}

NextLogs ==
    \/ \E c \in LogCommands :
            RoomForCommand /\ ReceiveCommand(SeqWorker, c, <<>>)
    \/ AddFriendsSelect(SeqWorker)
    \/ AddFriendsUpdate(SeqWorker)
    \/ SendTemplateByKeyword(SeqWorker)
    \/ SendTemplateFirst(SeqWorker)
    \/ SendSelectCustomers(SeqWorker)
    \/ SendInsert(SeqWorker)
    \/ ReportTotal(SeqWorker)
    \/ ReportAdded(SeqWorker)
    \/ ReportMessages(SeqWorker)
    \/ CommandEnd(SeqWorker)
    \/ CustomerRoutes(SeqWorker, LogCustomerForms)
    \/ TemplateRoutes(SeqWorker)

SpecLogs == Init /\ [][NextLogs]_vars

\* the rows added in this step
NewLogs == message_logs' \ message_logs

C13_Step ==
    /\ \* no row is removed or modified
       message_logs \subseteq message_logs'
    /\ \* a row is added only by the insert of a send_messages dispatch, one
       \* row under a fresh id
       NewLogs # {} =>
            /\ Cardinality(NewLogs) = 1
            /\ \A n \in NewLogs : \A m \in message_logs : m.id # n.id
            /\ \E p \in Workers :
                    /\ Acts(p)
                    /\ pc[p] = "sm_insert"
                    /\ loc[p].handler = "receive_command"
                    /\ loc[p].parsed.action = "send_messages"

\* C13: no operation modifies or removes a message_logs row, the deletion
\* of the customer it refers to included; a row appears only by the insert
\* of a send_messages dispatch.
C13_AppendOnly == [][C13_Step]_vars

\* a row outlives its customer
C13_Witness ==
    \E m \in message_logs : \A c \in customers : c.id # m.customer_id

\* ------------------------------------------------------------ C14

\* gather and add-friends commands and the customer routes, the edit form
\* submitting any add_status, one request at a time
StatusCommands ==
    {<<"sou", "ji", "ye", "hang", "ye", "ke", "hu", "xin", "xi", "1", "tiao">>,
     <<"tian", "jia", "ke", "hu", "ke", "hu">>}
StatusCustomerForms == {f \in CustomerForms : f.industry = <<"can", "yin">>}

NextStatus ==
    \/ \E c \in StatusCommands, d \in DraftLists :
            CommandFits(c) /\ ReceiveCommand(SeqWorker, c, d)
    \/ GatherInsert(SeqWorker)
    \/ AddFriendsSelect(SeqWorker)
    \/ AddFriendsUpdate(SeqWorker)
    \/ CommandEnd(SeqWorker)
    \/ CustomerRoutes(SeqWorker, StatusCustomerForms)

SpecStatus == Init /\ [][NextStatus]_vars

KnownStatuses == {WeiTianJia, YiTianJia}

\* the rows written in this step: inserted, or updated
Written == customers' \ customers

\* worker p writes row c by the UPDATE of the edit form in this step
EditWrites(p, c) ==
    /\ Acts(p)
    /\ pc[p] = "ec_update"
    /\ loc[p].handler = "edit_customer"
    /\ loc[p].target_id = c.id

\* C14: a customer row written by add_customer, by the gather loop or by the
\* add-friends update holds add_status "未添加" or "已添加"; a row written with
\* any other add_status (an empty one included) is written by the edit form.
C14_ProgramStatuses ==
    [][\A c \in Written :
            c.add_status \notin KnownStatuses =>
                \E p \in Workers : EditWrites(p, c)]_vars

\* add-friends has marked a customer next to one the edit form left with no
\* add_status
C14_Witness ==
    /\ \E c \in customers : c.add_status = Null
    /\ \E p \in CommandHandlers :
            /\ pc[p] = "respond"
            /\ loc[p].parsed.action = "add_friends"
            /\ loc[p].count >= 1

\* ------------------------------------------------------------ C15

\* add-friends commands and the customer routes, handled concurrently
RaceCommands ==
    {<<"tian", "jia", "can", "ke", "hu">>,
     <<"tian", "jia", "ke", "hu", "ke", "hu">>}
RaceCustomerForms ==
    {f \in CustomerForms :
        f.industry \in {<<"can", "yin">>, <<"ye">>}
            /\ f.add_status = WeiTianJia}

NextRace ==
    \E p \in Workers :
        \/ \E c \in RaceCommands : RoomForCommand /\ ReceiveCommand(p, c, <<>>)
        \/ AddFriendsSelect(p)
        \/ AddFriendsUpdate(p)
        \/ CommandEnd(p)
        \/ CustomerRoutes(p, RaceCustomerForms)

SpecRace == Init /\ [][NextRace]_vars

\* the ids the UPDATE of worker p matches now
MatchingIds(p) ==
    {c.id : c \in {x \in customers :
                        AddFriendsWhere(x, loc[p].parsed.target)}}

\* the ids the SELECT of worker p returned
SelectedIds(p) == {loc[p].selected[k].id : k \in 1..Len(loc[p].selected)}

\* worker p runs its UPDATE in this step
AddFriendsUpdates(p) ==
    /\ pc[p] = "af_update"
    /\ pc'[p] = "rc_update"
    /\ loc'[p].error = Null

\* the rows the step changes
RowsChanged == customers \ customers'

C15_Step(p) ==
    AddFriendsUpdates(p) =>
        /\ \* the message states the count of the SELECT
           loc'[p].result = Msg("add_friends", <<Len(loc[p].selected)>>, <<>>)
        /\ \* the UPDATE changes the rows that match when it runs
           {c.id : c \in RowsChanged} = MatchingIds(p)
        /\ \* so the two numbers differ only when customers was written
           \* between the two statements
           Cardinality(RowsChanged) # loc[p].count =>
                SelectedIds(p) # MatchingIds(p)

\* C15: the add_friends branch counts with a SELECT and marks with a separate
\* UPDATE that matches anew; the count in the message is the SELECT's, and it
\* differs from the number of rows the UPDATE changes when (and only when)
\* another request wrote customers between the two statements.
C15_CountThenUpdate == [][\A p \in Workers : C15_Step(p)]_vars

\* the SELECT has counted and, another request having written customers
\* since, the UPDATE about to run changes a different number of rows
C15_Witness ==
    \E p \in CommandHandlers :
        /\ pc[p] = "af_update"
        /\ loc[p].count # Cardinality(MatchingIds(p))
        /\ \E q \in Workers \ {p} : loc[q].handler # "none"

\* ------------------------------------------------------------ C16

\* the add_friends branch of worker p, with no industry filter, has returned
UnfilteredAddFriendsDone(p) ==
    /\ p \in CommandHandlers
    /\ pc[p] \in {"rc_update", "respond"}
    /\ loc[p].parsed.action = "add_friends"
    /\ ~TargetGiven(loc[p].parsed.target)
    /\ loc[p].error = Null

\* C16: with one request at a time, once an add_friends dispatch without an
\* industry filter has completed, every customer row holds add_status
\* "已添加", whatever it held before (nothing, or an arbitrary text of the
\* edit form).
C16_AllAdded ==
    \A p \in Workers :
        UnfilteredAddFriendsDone(p) =>
            \A c \in customers : c.add_status = YiTianJia

\* ------------------------------------------------------------ C17

\* the next statement of the handler worker p is running, whatever its
\* outcome (it returns or it raises)
HandlerStep(p) ==
    \/ GatherInsert(p)
    \/ AddFriendsSelect(p)
    \/ AddFriendsUpdate(p)
    \/ SendTemplateByKeyword(p)
    \/ SendTemplateFirst(p)
    \/ SendSelectCustomers(p)
    \/ SendInsert(p)
    \/ CommandEnd(p)

\* concurrent requests, every handler that has started keeps being scheduled
SpecLive == Spec /\ \A p \in Workers : WF_vars(HandlerStep(p))

InProgress(i) ==
    \E r \in command_logs : r.id = i /\ r.status = ZhiXingZhong

Finished(i) ==
    \E r \in command_logs : r.id = i /\ r.status \in Terminal

\* C17: every command_logs row inserted "执行中" eventually holds "执行成功"
\* or "执行失败", whether the dispatch returns or raises, as long as its
\* handler keeps being scheduled.
C17_EventuallyTerminal ==
    \A i \in 1..MaxCommands : InProgress(i) ~> Finished(i)
====
